---- MODULE Spec2Model ----
(***************************************************************************)
(* Model of packages/python-alt-text/app.py: the lazily loaded model       *)
(* registry (load_blip_model, load_alt_refinement_model), the refinement   *)
(* stage (refine_alt_text) and the request handlers of the HTTP service.   *)
(*                                                                         *)
(* Python strings are sequences of one-character strings, so that split,   *)
(* strip, join, startswith and replace are computed as Python computes     *)
(* them.                                                                   *)
(***************************************************************************)
EXTENDS Integers, Sequences, FiniteSets, TLC

VARIABLES
    \* ---- module globals of app.py (lines 35-44)
    BLIP_MODEL, BLIP_PROCESSOR, BLIP_LOCK,
    ALT_MODEL, ALT_TOKENIZER, ALT_MODEL_LOCK,
    mpsAvailable,     \* torch.backends.mps.is_available(), fixed per process
    \* ---- threads calling the loaders
    caller,           \* caller[t]: position of thread t inside a loader
    loadCount,        \* loadCount[l]: from_pretrained calls for the model of l
    completed,        \* completed[l]: some load of l ran to its end without raising
    faulted,          \* faulted[l]: some underlying step of l has raised
    \* ---- one call of refine_alt_text
    rpc, caption_text, generated_text, extracted, alt_text, refined, raisedAt,
    \* ---- the HTTP service
    started,          \* the startup hook (113-121) has run
    req,              \* req[r]: the request in slot r and its handler's position
    loop              \* the request whose coroutine occupies the event loop, or 0

loaderVars == <<BLIP_MODEL, BLIP_PROCESSOR, BLIP_LOCK, ALT_MODEL, ALT_TOKENIZER,
                ALT_MODEL_LOCK, mpsAvailable, caller, loadCount, completed, faulted>>
refineVars == <<rpc, caption_text, generated_text, extracted, alt_text, refined, raisedAt>>
httpVars == <<started, req, loop>>
vars == <<loaderVars, refineVars, httpVars>>

----------------------------------------------------------------------------
(* Bounds of the model.                                                    *)

\* Largest number of whitespace-delimited words in a generated continuation.
MaxGenWords == 14
\* Threads that call a loader concurrently.
MaxCallers == 2
\* Loader calls each thread makes.
MaxCalls == 2
\* Uploads (POST /alt, POST /caption) the service receives.
MaxRequests == 1

----------------------------------------------------------------------------
(* Python str operations.                                                  *)

\* Characters str.split() and str.strip() treat as whitespace.
Whitespace == {" ", "\n", "\t"}

Take(s, n) == SubSeq(s, 1, IF n < Len(s) THEN n ELSE Len(s))

Drop(s, n) == SubSeq(s, n + 1, Len(s))

RECURSIVE LStripChars(_, _)
LStripChars(s, chars) ==
    IF s # <<>> /\ Head(s) \in chars THEN LStripChars(Tail(s), chars) ELSE s

RECURSIVE RStripChars(_, _)
RStripChars(s, chars) ==
    IF s # <<>> /\ s[Len(s)] \in chars
    THEN RStripChars(SubSeq(s, 1, Len(s) - 1), chars)
    ELSE s

\* s.strip(chars)
StripChars(s, chars) == RStripChars(LStripChars(s, chars), chars)

\* s.strip()
Strip(s) == StripChars(s, Whitespace)

\* s.split(): the maximal runs of non-whitespace characters, in order.
RECURSIVE SplitFrom(_, _, _)
SplitFrom(s, cur, acc) ==
    IF s = <<>>
    THEN IF cur = <<>> THEN acc ELSE Append(acc, cur)
    ELSE IF Head(s) \in Whitespace
         THEN SplitFrom(Tail(s), <<>>, IF cur = <<>> THEN acc ELSE Append(acc, cur))
         ELSE SplitFrom(Tail(s), Append(cur, Head(s)), acc)

Split(s) == SplitFrom(s, <<>>, <<>>)

\* " ".join(ws)
RECURSIVE Join(_)
Join(ws) ==
    IF ws = <<>> THEN <<>>
    ELSE IF Len(ws) = 1 THEN ws[1]
    ELSE ws[1] \o <<" ">> \o Join(Tail(ws))

\* s.startswith(p)
StartsWith(s, p) == Len(s) >= Len(p) /\ SubSeq(s, 1, Len(p)) = p

\* sub in s
Contains(s, sub) == \E i \in 0..(Len(s) - Len(sub)) : StartsWith(Drop(s, i), sub)

\* s.split(sep)[-1]: what follows the last occurrence of sep (s itself if none).
AfterLast(s, sep) ==
    LET at == {i \in 0..(Len(s) - Len(sep)) : StartsWith(Drop(s, i), sep)}
    IN  IF at = {} THEN s
        ELSE Drop(s, (CHOOSE i \in at : \A j \in at : j <= i) + Len(sep))

\* s.replace(old, ""), old non-empty: the occurrences are removed left to right.
RECURSIVE RemoveAll(_, _)
RemoveAll(s, old) ==
    IF s = <<>> THEN <<>>
    ELSE IF StartsWith(s, old) THEN RemoveAll(Drop(s, Len(old)), old)
    ELSE <<Head(s)>> \o RemoveAll(Tail(s), old)

----------------------------------------------------------------------------
(* refine_alt_text, lines 198-251.                                         *)

\* The f-string of line 206.
PromptPrefix ==
    <<"C", "r", "e", "a", "t", "e", " ", "S", "E", "O", "-", "o", "p", "t", "i", "m",
      "i", "z", "e", "d", " ", "a", "l", "t", " ", "t", "e", "x", "t", " ", "(", "8",
      "-", "1", "2", " ", "w", "o", "r", "d", "s", ")", ":", " ">>

AltMarker == <<"A", "l", "t", ":">>

Prompt(caption) == PromptPrefix \o caption \o <<"\n">> \o AltMarker

\* The word-count thresholds of lines 234-236 and 250.
TooLongWords == 12
TruncateWords == 10
TooShortWords == 8
FallbackWords == 10

\* Lines 227-230: the text after the last "Alt:", else the output minus the prompt.
ExtractAlt(generated, prompt) ==
    IF Contains(generated, AltMarker)
    THEN Strip(AfterLast(generated, AltMarker))
    ELSE Strip(RemoveAll(generated, prompt))

\* Lines 233-239.
WordPolicy(alt, caption) ==
    LET ws == Split(alt)
    IN  IF Len(ws) > TooLongWords THEN Join(Take(ws, TruncateWords))
        ELSE IF Len(ws) < TooShortWords THEN caption
        ELSE IF Len(ws) = 0 THEN caption
        ELSE alt

\* Line 242.
StripQuotes(alt) == Strip(StripChars(StripChars(alt, {"\""}), {"'"}))

\* Line 245: alt_text or caption_text.
OrCaption(alt, caption) == IF alt # <<>> THEN alt ELSE caption

\* FallbackText with the truncation of line 250 left out.
FallbackTextNoTruncation(caption) ==
    LET ws == Split(caption)
    IN  IF ws # <<>> THEN Join(ws) ELSE caption

\* Lines 250-251.
FallbackText(caption) ==
    LET ws == Take(Split(caption), FallbackWords)
    IN  IF ws # <<>> THEN Join(ws) ELSE caption

----------------------------------------------------------------------------
(* The model registry: load_blip_model (50-77) and                         *)
(* load_alt_refinement_model (80-110).                                     *)

Threads == 1..MaxCallers

Loaders == {"blip", "alt"}

\* A global that is still None (lines 35, 36, 41, 42).
NoModel == [loaded |-> FALSE, placed |-> "pending", eval |-> FALSE]
NoTokenizer == [loaded |-> FALSE, pad |-> FALSE]

\* What from_pretrained returns: a model not yet placed on a device nor put in
\* eval mode by this module, a tokenizer whose pad token is not yet set.
FreshModel == [loaded |-> TRUE, placed |-> "pending", eval |-> FALSE]
FreshTokenizer == [loaded |-> TRUE, pad |-> FALSE]

\* The device the placement step settles on (lines 66-70, 99-103).
Device == IF mpsAvailable THEN "mps" ELSE "cpu"

\* The readiness test of lines 53, 56 and of lines 83, 86: both globals not None.
BlipReadyCheck == BLIP_MODEL.loaded /\ BLIP_PROCESSOR.loaded
AltReadyCheck == ALT_MODEL.loaded /\ ALT_TOKENIZER.loaded

IdleCaller == [pc |-> "idle", loader |-> "blip", calls |-> 0, outcome |-> "none"]

At(t, l, pc) == caller[t].loader = l /\ caller[t].pc = pc

Goto(t, pc) == caller' = [caller EXCEPT ![t].pc = pc]

Return(t) == caller' = [caller EXCEPT ![t].pc = "idle", ![t].outcome = "returned"]

\* The except clauses of lines 75-77 and 108-110: the RuntimeError leaves the
\* with block, which releases the lock, and reaches the caller.
Raise(t, l) ==
    /\ caller' = [caller EXCEPT ![t].pc = "idle", ![t].outcome = "raised"]
    /\ faulted' = [faulted EXCEPT ![l] = TRUE]

\* A thread calls one of the two loaders.
CallLoader(t, l) ==
    /\ caller[t].pc = "idle"
    /\ caller[t].calls < MaxCalls
    /\ caller' = [caller EXCEPT ![t] = [pc |-> "check", loader |-> l,
                                        calls |-> @.calls + 1, outcome |-> "running"]]
    /\ UNCHANGED <<BLIP_MODEL, BLIP_PROCESSOR, BLIP_LOCK, ALT_MODEL, ALT_TOKENIZER,
                   ALT_MODEL_LOCK, mpsAvailable, loadCount, completed, faulted>>
    /\ UNCHANGED <<refineVars, httpVars>>

\* ---- load_blip_model

\* Lines 53-54: the unlocked fast path.
BlipCheck(t) ==
    /\ At(t, "blip", "check")
    /\ IF BlipReadyCheck THEN Return(t) ELSE Goto(t, "lock")
    /\ UNCHANGED <<BLIP_MODEL, BLIP_PROCESSOR, BLIP_LOCK, ALT_MODEL, ALT_TOKENIZER,
                   ALT_MODEL_LOCK, mpsAvailable, loadCount, completed, faulted>>
    /\ UNCHANGED <<refineVars, httpVars>>

\* Line 55: with BLIP_LOCK.
BlipAcquire(t) ==
    /\ At(t, "blip", "lock")
    /\ BLIP_LOCK = 0
    /\ BLIP_LOCK' = t
    /\ Goto(t, "check2")
    /\ UNCHANGED <<BLIP_MODEL, BLIP_PROCESSOR, ALT_MODEL, ALT_TOKENIZER,
                   ALT_MODEL_LOCK, mpsAvailable, loadCount, completed, faulted>>
    /\ UNCHANGED <<refineVars, httpVars>>

\* Lines 56-57: the second check, under the lock.
BlipCheck2(t) ==
    /\ At(t, "blip", "check2")
    /\ IF BlipReadyCheck
       THEN Return(t) /\ BLIP_LOCK' = 0
       ELSE Goto(t, "processor") /\ UNCHANGED BLIP_LOCK
    /\ UNCHANGED <<BLIP_MODEL, BLIP_PROCESSOR, ALT_MODEL, ALT_TOKENIZER,
                   ALT_MODEL_LOCK, mpsAvailable, loadCount, completed, faulted>>
    /\ UNCHANGED <<refineVars, httpVars>>

\* Line 62.
BlipLoadProcessor(t) ==
    /\ At(t, "blip", "processor")
    /\ \/ /\ BLIP_PROCESSOR' = FreshTokenizer
          /\ Goto(t, "model")
          /\ UNCHANGED <<BLIP_LOCK, faulted>>
       \/ /\ Raise(t, "blip")
          /\ BLIP_LOCK' = 0
          /\ UNCHANGED BLIP_PROCESSOR
    /\ UNCHANGED <<BLIP_MODEL, ALT_MODEL, ALT_TOKENIZER, ALT_MODEL_LOCK,
                   mpsAvailable, loadCount, completed>>
    /\ UNCHANGED <<refineVars, httpVars>>

\* Line 63.
BlipLoadModel(t) ==
    /\ At(t, "blip", "model")
    /\ loadCount' = [loadCount EXCEPT !["blip"] = @ + 1]
    /\ \/ /\ BLIP_MODEL' = FreshModel
          /\ Goto(t, "place")
          /\ UNCHANGED <<BLIP_LOCK, faulted>>
       \/ /\ Raise(t, "blip")
          /\ BLIP_LOCK' = 0
          /\ UNCHANGED BLIP_MODEL
    /\ UNCHANGED <<BLIP_PROCESSOR, ALT_MODEL, ALT_TOKENIZER, ALT_MODEL_LOCK,
                   mpsAvailable, completed>>
    /\ UNCHANGED <<refineVars, httpVars>>

\* Lines 66-70: BLIP_MODEL.to("mps") when MPS is available; .to may raise.
BlipPlace(t) ==
    /\ At(t, "blip", "place")
    /\ \/ /\ BLIP_MODEL' = [BLIP_MODEL EXCEPT !.placed = Device]
          /\ Goto(t, "eval")
          /\ UNCHANGED <<BLIP_LOCK, faulted>>
       \/ /\ mpsAvailable
          /\ Raise(t, "blip")
          /\ BLIP_LOCK' = 0
          /\ UNCHANGED BLIP_MODEL
    /\ UNCHANGED <<BLIP_PROCESSOR, ALT_MODEL, ALT_TOKENIZER, ALT_MODEL_LOCK,
                   mpsAvailable, loadCount, completed>>
    /\ UNCHANGED <<refineVars, httpVars>>

\* Lines 72-73: BLIP_MODEL.eval(), then the with block ends.
BlipEval(t) ==
    /\ At(t, "blip", "eval")
    /\ BLIP_LOCK' = 0
    /\ \/ /\ BLIP_MODEL' = [BLIP_MODEL EXCEPT !.eval = TRUE]
          /\ Return(t)
          /\ completed' = [completed EXCEPT !["blip"] = TRUE]
          /\ UNCHANGED faulted
       \/ /\ Raise(t, "blip")
          /\ UNCHANGED <<BLIP_MODEL, completed>>
    /\ UNCHANGED <<BLIP_PROCESSOR, ALT_MODEL, ALT_TOKENIZER, ALT_MODEL_LOCK,
                   mpsAvailable, loadCount>>
    /\ UNCHANGED <<refineVars, httpVars>>

\* ---- load_alt_refinement_model

\* Lines 83-84: the unlocked fast path.
AltCheck(t) ==
    /\ At(t, "alt", "check")
    /\ IF AltReadyCheck THEN Return(t) ELSE Goto(t, "lock")
    /\ UNCHANGED <<BLIP_MODEL, BLIP_PROCESSOR, BLIP_LOCK, ALT_MODEL, ALT_TOKENIZER,
                   ALT_MODEL_LOCK, mpsAvailable, loadCount, completed, faulted>>
    /\ UNCHANGED <<refineVars, httpVars>>

\* Line 85: with ALT_MODEL_LOCK.
AltAcquire(t) ==
    /\ At(t, "alt", "lock")
    /\ ALT_MODEL_LOCK = 0
    /\ ALT_MODEL_LOCK' = t
    /\ Goto(t, "check2")
    /\ UNCHANGED <<BLIP_MODEL, BLIP_PROCESSOR, BLIP_LOCK, ALT_MODEL, ALT_TOKENIZER,
                   mpsAvailable, loadCount, completed, faulted>>
    /\ UNCHANGED <<refineVars, httpVars>>

\* Lines 86-87: the second check, under the lock.
AltCheck2(t) ==
    /\ At(t, "alt", "check2")
    /\ IF AltReadyCheck
       THEN Return(t) /\ ALT_MODEL_LOCK' = 0
       ELSE Goto(t, "tokenizer") /\ UNCHANGED ALT_MODEL_LOCK
    /\ UNCHANGED <<BLIP_MODEL, BLIP_PROCESSOR, BLIP_LOCK, ALT_MODEL, ALT_TOKENIZER,
                   mpsAvailable, loadCount, completed, faulted>>
    /\ UNCHANGED <<refineVars, httpVars>>

\* Line 91.
AltLoadTokenizer(t) ==
    /\ At(t, "alt", "tokenizer")
    /\ \/ /\ ALT_TOKENIZER' = FreshTokenizer
          /\ Goto(t, "pad")
          /\ UNCHANGED <<ALT_MODEL_LOCK, faulted>>
       \/ /\ Raise(t, "alt")
          /\ ALT_MODEL_LOCK' = 0
          /\ UNCHANGED ALT_TOKENIZER
    /\ UNCHANGED <<BLIP_MODEL, BLIP_PROCESSOR, BLIP_LOCK, ALT_MODEL,
                   mpsAvailable, loadCount, completed>>
    /\ UNCHANGED <<refineVars, httpVars>>

\* Line 92: pad_token = eos_token.
AltSetPad(t) ==
    /\ At(t, "alt", "pad")
    /\ ALT_TOKENIZER' = [ALT_TOKENIZER EXCEPT !.pad = TRUE]
    /\ Goto(t, "model")
    /\ UNCHANGED <<BLIP_MODEL, BLIP_PROCESSOR, BLIP_LOCK, ALT_MODEL, ALT_MODEL_LOCK,
                   mpsAvailable, loadCount, completed, faulted>>
    /\ UNCHANGED <<refineVars, httpVars>>

\* Line 94.
AltLoadModel(t) ==
    /\ At(t, "alt", "model")
    /\ loadCount' = [loadCount EXCEPT !["alt"] = @ + 1]
    /\ \/ /\ ALT_MODEL' = FreshModel
          /\ Goto(t, "eval")
          /\ UNCHANGED <<ALT_MODEL_LOCK, faulted>>
       \/ /\ Raise(t, "alt")
          /\ ALT_MODEL_LOCK' = 0
          /\ UNCHANGED ALT_MODEL
    /\ UNCHANGED <<BLIP_MODEL, BLIP_PROCESSOR, BLIP_LOCK, ALT_TOKENIZER,
                   mpsAvailable, completed>>
    /\ UNCHANGED <<refineVars, httpVars>>

\* Line 95: ALT_MODEL.eval().
AltEval(t) ==
    /\ At(t, "alt", "eval")
    /\ \/ /\ ALT_MODEL' = [ALT_MODEL EXCEPT !.eval = TRUE]
          /\ Goto(t, "place")
          /\ UNCHANGED <<ALT_MODEL_LOCK, faulted>>
       \/ /\ Raise(t, "alt")
          /\ ALT_MODEL_LOCK' = 0
          /\ UNCHANGED ALT_MODEL
    /\ UNCHANGED <<BLIP_MODEL, BLIP_PROCESSOR, BLIP_LOCK, ALT_TOKENIZER,
                   mpsAvailable, loadCount, completed>>
    /\ UNCHANGED <<refineVars, httpVars>>

\* Lines 98-107: the move to MPS sits in its own try; when it raises the model
\* stays on the CPU and the load still ends normally.
AltPlace(t) ==
    /\ At(t, "alt", "place")
    /\ \/ ALT_MODEL' = [ALT_MODEL EXCEPT !.placed = Device]
       \/ mpsAvailable /\ ALT_MODEL' = [ALT_MODEL EXCEPT !.placed = "cpu"]
    /\ ALT_MODEL_LOCK' = 0
    /\ Return(t)
    /\ completed' = [completed EXCEPT !["alt"] = TRUE]
    /\ UNCHANGED <<BLIP_MODEL, BLIP_PROCESSOR, BLIP_LOCK, ALT_TOKENIZER,
                   mpsAvailable, loadCount, faulted>>
    /\ UNCHANGED <<refineVars, httpVars>>

\* A call of a loader with no other thread inside it, as a request handler or a
\* worker makes it: what it leaves in the globals and whether it raised.
BlipLoadOutcomes(model, processor, mps) ==
    IF model.loaded /\ processor.loaded
    THEN {[model |-> model, processor |-> processor, raised |-> FALSE]}
    ELSE {[model |-> model, processor |-> processor, raised |-> TRUE],
          [model |-> model, processor |-> FreshTokenizer, raised |-> TRUE],
          [model |-> FreshModel, processor |-> FreshTokenizer, raised |-> TRUE],
          [model |-> [FreshModel EXCEPT !.placed = IF mps THEN "mps" ELSE "cpu"],
           processor |-> FreshTokenizer, raised |-> TRUE],
          [model |-> [loaded |-> TRUE, placed |-> IF mps THEN "mps" ELSE "cpu",
                      eval |-> TRUE],
           processor |-> FreshTokenizer, raised |-> FALSE]}

AltLoadOutcomes(model, tokenizer, mps) ==
    IF model.loaded /\ tokenizer.loaded
    THEN {[model |-> model, tokenizer |-> tokenizer, raised |-> FALSE]}
    ELSE {[model |-> model, tokenizer |-> tokenizer, raised |-> TRUE],
          [model |-> model, tokenizer |-> [loaded |-> TRUE, pad |-> TRUE],
           raised |-> TRUE],
          [model |-> FreshModel, tokenizer |-> [loaded |-> TRUE, pad |-> TRUE],
           raised |-> TRUE]}
         \cup {[model |-> [loaded |-> TRUE, placed |-> d, eval |-> TRUE],
                tokenizer |-> [loaded |-> TRUE, pad |-> TRUE], raised |-> FALSE] :
               d \in IF mps THEN {"mps", "cpu"} ELSE {"cpu"}}

----------------------------------------------------------------------------
(* Two threads calling the loaders of a registry that is not yet loaded.   *)

RefineIdle ==
    /\ rpc = "unused"
    /\ caption_text = <<>>
    /\ generated_text = <<>>
    /\ extracted = <<>>
    /\ alt_text = <<>>
    /\ refined = <<>>
    /\ raisedAt = "none"

HttpIdle ==
    /\ started = FALSE
    /\ req = <<>>
    /\ loop = 0

InitLoad ==
    /\ BLIP_MODEL = NoModel
    /\ BLIP_PROCESSOR = NoTokenizer
    /\ BLIP_LOCK = 0
    /\ ALT_MODEL = NoModel
    /\ ALT_TOKENIZER = NoTokenizer
    /\ ALT_MODEL_LOCK = 0
    /\ mpsAvailable \in BOOLEAN
    /\ caller = [t \in Threads |-> IdleCaller]
    /\ loadCount = [l \in Loaders |-> 0]
    /\ completed = [l \in Loaders |-> FALSE]
    /\ faulted = [l \in Loaders |-> FALSE]
    /\ RefineIdle
    /\ HttpIdle

NextLoad ==
    \E t \in Threads :
        \/ \E l \in Loaders : CallLoader(t, l)
        \/ BlipCheck(t)
        \/ BlipAcquire(t)
        \/ BlipCheck2(t)
        \/ BlipLoadProcessor(t)
        \/ BlipLoadModel(t)
        \/ BlipPlace(t)
        \/ BlipEval(t)
        \/ AltCheck(t)
        \/ AltAcquire(t)
        \/ AltCheck2(t)
        \/ AltLoadTokenizer(t)
        \/ AltSetPad(t)
        \/ AltLoadModel(t)
        \/ AltEval(t)
        \/ AltPlace(t)

SpecLoad == InitLoad /\ [][NextLoad]_vars

\* Construction of a handle is finished: both globals set, the pad token set where
\* there is one, the model placed on its device and in eval mode.
BlipReady ==
    /\ BlipReadyCheck
    /\ BLIP_MODEL.placed # "pending"
    /\ BLIP_MODEL.eval

AltReady ==
    /\ AltReadyCheck
    /\ ALT_TOKENIZER.pad
    /\ ALT_MODEL.placed # "pending"
    /\ ALT_MODEL.eval

ReadyHandle(l) == IF l = "blip" THEN BlipReady ELSE AltReady

Returned(t, l) == caller[t].loader = l /\ caller[t].outcome = "returned"

\* C1: for each loader, when the underlying load succeeds (no step of it has
\* raised), at most one underlying load is performed, exactly one once a caller
\* has returned, and every caller whose call has returned sees a handle whose
\* construction (device placement and eval mode included) is finished.
C1_OneLoadAndReady ==
    \A l \in Loaders :
        ~faulted[l] =>
            /\ loadCount[l] <= 1
            /\ \A t \in Threads :
                Returned(t, l) => loadCount[l] = 1 /\ ReadyHandle(l)

\* C9: a failed load never marks a handle ready. While no thread is inside the
\* locked section and no load has ever run to its end without raising, the
\* readiness check of the fast path is false; a thread that is not inside a
\* loader does not hold the lock.
C9_FailedLoadNotReady ==
    /\ (BLIP_LOCK = 0 /\ ~completed["blip"]) => ~BlipReadyCheck
    /\ (ALT_MODEL_LOCK = 0 /\ ~completed["alt"]) => ~AltReadyCheck
    /\ \A t \in Threads :
        caller[t].pc = "idle" => BLIP_LOCK # t /\ ALT_MODEL_LOCK # t

----------------------------------------------------------------------------
(* One call of refine_alt_text (198-251), step by step.                    *)

\* Words the captions and the generated texts are made of: a plain word, a lone
\* double quote, a lone single quote, a word that opens with a double quote.
PlainWord == <<"w">>
DoubleQuote == <<"\"">>
SingleQuote == <<"'">>
QuotedWord == <<"\"", "w">>

\* n words joined by single spaces, the first and the last as given.
Phrase(n, first, last) ==
    Join([i \in 1..n |-> IF i = 1 THEN first ELSE IF i = n THEN last ELSE PlainWord])

CaptionLengths == {0, 2, 9, 13}

\* Caption strings: BLIP's decoded output, or whatever a caller passes.
Captions ==
    {Phrase(n, f, l) : n \in CaptionLengths, f \in {PlainWord, DoubleQuote},
                       l \in {PlainWord, SingleQuote}}
        \cup {<<" ">>, <<"w", " ", " ", "w">>, <<"w", " ">>}

\* What the sampled continuation decodes to.
Continuations ==
    {Phrase(n, f, l) : n \in 0..MaxGenWords, f \in {PlainWord, DoubleQuote, QuotedWord},
                       l \in {PlainWord, DoubleQuote, SingleQuote}}
        \cup {<<"w", " ", "w", "\n">> \o AltMarker}

\* Line 224: the decoded sequence is the prompt followed by the continuation; a
\* decode that does not reproduce the prompt yields the continuation alone.
GeneratedTexts(caption) ==
    {Prompt(caption) \o <<" ">> \o c : c \in Continuations} \cup Continuations

\* Line 203: load_alt_refinement_model() is called before the try block, so its
\* RuntimeError leaves refine_alt_text.
RefineCall ==
    /\ rpc = "idle"
    /\ \E c \in Captions : caption_text' = c
    /\ rpc' = "load"
    /\ UNCHANGED <<generated_text, extracted, alt_text, refined, raisedAt>>
    /\ UNCHANGED loaderVars
    /\ UNCHANGED httpVars

RefineLoad ==
    /\ rpc = "load"
    /\ \E o \in AltLoadOutcomes(ALT_MODEL, ALT_TOKENIZER, mpsAvailable) :
        /\ ALT_MODEL' = o.model
        /\ ALT_TOKENIZER' = o.tokenizer
        /\ rpc' = IF o.raised THEN "raised" ELSE "prompt"
        /\ raisedAt' = IF o.raised THEN "load" ELSE raisedAt
    /\ UNCHANGED <<caption_text, generated_text, extracted, alt_text, refined>>
    /\ UNCHANGED <<BLIP_MODEL, BLIP_PROCESSOR, BLIP_LOCK, ALT_MODEL_LOCK, mpsAvailable,
                   caller, loadCount, completed, faulted>>
    /\ UNCHANGED httpVars

\* Lines 206-211: the prompt is built and tokenized, the tensors moved.
RefinePrompt ==
    /\ rpc = "prompt"
    /\ \/ rpc' = "generate" /\ UNCHANGED raisedAt
       \/ rpc' = "except" /\ raisedAt' = "prompt"
    /\ UNCHANGED <<caption_text, generated_text, extracted, alt_text, refined>>
    /\ UNCHANGED loaderVars
    /\ UNCHANGED httpVars

\* Lines 213-222: ALT_MODEL.generate with sampling.
RefineGenerate ==
    /\ rpc = "generate"
    /\ \/ rpc' = "decode" /\ UNCHANGED raisedAt
       \/ rpc' = "except" /\ raisedAt' = "generate"
    /\ UNCHANGED <<caption_text, generated_text, extracted, alt_text, refined>>
    /\ UNCHANGED loaderVars
    /\ UNCHANGED httpVars

\* Line 224: ALT_TOKENIZER.decode.
RefineDecode ==
    /\ rpc = "decode"
    /\ \/ /\ \E g \in GeneratedTexts(caption_text) : generated_text' = g
          /\ rpc' = "extract"
          /\ UNCHANGED raisedAt
       \/ /\ rpc' = "except"
          /\ raisedAt' = "decode"
          /\ UNCHANGED generated_text
    /\ UNCHANGED <<caption_text, extracted, alt_text, refined>>
    /\ UNCHANGED loaderVars
    /\ UNCHANGED httpVars

\* Lines 227-230.
RefineExtract ==
    /\ rpc = "extract"
    /\ extracted' = ExtractAlt(generated_text, Prompt(caption_text))
    /\ alt_text' = extracted'
    /\ rpc' = "policy"
    /\ UNCHANGED <<caption_text, generated_text, refined, raisedAt>>
    /\ UNCHANGED loaderVars
    /\ UNCHANGED httpVars

\* Lines 233-239.
RefinePolicy ==
    /\ rpc = "policy"
    /\ alt_text' = WordPolicy(alt_text, caption_text)
    /\ rpc' = "strip"
    /\ UNCHANGED <<caption_text, generated_text, extracted, refined, raisedAt>>
    /\ UNCHANGED loaderVars
    /\ UNCHANGED httpVars

\* Lines 242-245.
RefineStrip ==
    /\ rpc = "strip"
    /\ alt_text' = StripQuotes(alt_text)
    /\ refined' = OrCaption(alt_text', caption_text)
    /\ rpc' = "returned"
    /\ UNCHANGED <<caption_text, generated_text, extracted, raisedAt>>
    /\ UNCHANGED loaderVars
    /\ UNCHANGED httpVars

\* Lines 247-251.
RefineExcept ==
    /\ rpc = "except"
    /\ refined' = FallbackText(caption_text)
    /\ rpc' = "returned"
    /\ UNCHANGED <<caption_text, generated_text, extracted, alt_text, raisedAt>>
    /\ UNCHANGED loaderVars
    /\ UNCHANGED httpVars

\* The refinement model is either not loaded yet or was loaded at startup.
LoadedModel == [loaded |-> TRUE, placed |-> Device, eval |-> TRUE]
LoadedTokenizer == [loaded |-> TRUE, pad |-> TRUE]

InitRefine ==
    /\ mpsAvailable \in BOOLEAN
    /\ BLIP_MODEL = NoModel
    /\ BLIP_PROCESSOR = NoTokenizer
    /\ BLIP_LOCK = 0
    /\ \/ ALT_MODEL = NoModel /\ ALT_TOKENIZER = NoTokenizer
       \/ ALT_MODEL = LoadedModel /\ ALT_TOKENIZER = LoadedTokenizer
    /\ ALT_MODEL_LOCK = 0
    /\ caller = [t \in Threads |-> IdleCaller]
    /\ loadCount = [l \in Loaders |-> 0]
    /\ completed = [l \in Loaders |-> FALSE]
    /\ faulted = [l \in Loaders |-> FALSE]
    /\ rpc = "idle"
    /\ caption_text = <<>>
    /\ generated_text = <<>>
    /\ extracted = <<>>
    /\ alt_text = <<>>
    /\ refined = <<>>
    /\ raisedAt = "none"
    /\ HttpIdle

NextRefine ==
    \/ RefineCall
    \/ RefineLoad
    \/ RefinePrompt
    \/ RefineGenerate
    \/ RefineDecode
    \/ RefineExtract
    \/ RefinePolicy
    \/ RefineStrip
    \/ RefineExcept

SpecRefine == InitRefine /\ [][NextRefine]_vars

WordCount(s) == Len(Split(s))


\* The first n words of s joined by single spaces, s itself if it has no words.
FirstWordsOf(s, n) ==
    LET ws == Split(s)
    IN  IF Len(ws) = 0 THEN s
        ELSE Join([i \in 1..(IF Len(ws) < n THEN Len(ws) ELSE n) |-> ws[i]])

\* C2 as stated: refine_alt_text never raises, and after any exception (model
\* loading included) it returns the first 10 words of the caption joined by single
\* spaces, or the caption itself if the caption has no words.
C2_NeverRaises ==
    /\ rpc # "raised"
    /\ (rpc = "returned" /\ raisedAt # "none") => refined = FirstWordsOf(caption_text, 10)

\* C2 amended: refine_alt_text raises exactly when load_alt_refinement_model
\* raises (the load is called before the try block); after an exception during
\* prompting, generation or decoding it returns the first 10 words of the caption
\* joined by single spaces, or the caption itself if the caption has no words.
C2_RaisesOnlyOnLoadFailure ==
    /\ rpc = "raised" <=> raisedAt = "load"
    /\ (rpc = "returned" /\ raisedAt # "none") =>
            /\ raisedAt \in {"prompt", "generate", "decode"}
            /\ refined = FirstWordsOf(caption_text, 10)

\* A generation failure on a caption of more than 10 words with a quoted first
\* word: the fallback returned a truncated caption.
C2_Witness ==
    /\ rpc = "returned"
    /\ raisedAt = "generate"
    /\ WordCount(caption_text) > 10
    /\ WordCount(refined) = 10
    /\ refined # caption_text

\* C3: when the extracted text has more than 12 words and no exception occurs, the
\* returned string has exactly 10 words, the first 10 words of the extracted text.
C3_ExactlyTenWords ==
    (rpc = "returned" /\ raisedAt = "none" /\ WordCount(extracted) > 12) =>
        /\ WordCount(refined) = 10
        /\ Split(refined) = SubSeq(Split(extracted), 1, 10)

\* C4: when the extracted text has fewer than 8 words and no exception occurs, the
\* returned string equals the original caption exactly.
C4_ShortUsesCaption ==
    (rpc = "returned" /\ raisedAt = "none" /\ WordCount(extracted) < 8) =>
        refined = caption_text

\* C5: every string refine_alt_text returns has between 8 and 12 words or equals
\* the original caption.
C5_WordBudget ==
    rpc = "returned" => (WordCount(refined) \in 8..12 \/ refined = caption_text)


----------------------------------------------------------------------------
(* The HTTP service: startup (113-121), infer_caption_from_data (254-282), *)
(* infer_caption (285-290), generate_alt_from_caption (293-307),           *)
(* generate_alt (310-314) and the handlers caption (317-330),              *)
(* test_endpoint (333-336) and alt_only (338-371).                         *)
(*                                                                         *)
(* The handlers are coroutines of one event loop: a coroutine keeps the    *)
(* loop from the point it is resumed to its next suspension. The only      *)
(* suspensions are the reads of the upload and asyncio.to_thread.          *)

Requests == 1..MaxRequests

\* Line 282.
FallbackCaption == <<"A", " ", "b", "e", "a", "u", "t", "i", "f", "u", "l", " ", "i", "m", "a", "g", "e">>

\* Lines 352 and 354.
NotAnImage == <<"f", "i", "l", "e", " ", "m", "u", "s", "t", " ", "b", "e", " ", "a", "n", " ", "i", "m", "a", "g", "e">>
EmptyFile == <<"e", "m", "p", "t", "y", " ", "f", "i", "l", "e">>

ImagePrefix == <<"i", "m", "a", "g", "e", "/">>

\* UploadFile.content_type: None, or a string.
NoContentType == [present |-> FALSE, value |-> <<>>]
ContentTypes ==
    {NoContentType,
     [present |-> TRUE, value |-> <<>>],
     [present |-> TRUE, value |-> <<"i", "m", "a", "g", "e", "/", "p", "n", "g">>],
     [present |-> TRUE, value |-> <<"t", "e", "x", "t", "/", "p", "l", "a", "i", "n">>]}

\* Upload bodies: empty, bytes that are no image, and an image.
Bodies == {<<>>, <<0>>, <<1>>}

\* Image.open(...).convert('RGB') of line 263 succeeds.
Decodable(data) == data = <<1>>

\* What BLIP's beam search decodes to for each image (273-275); generation is
\* deterministic.
ImageCaption(data) == Phrase(9, PlainWord, PlainWord)

\* The steps of the captioning pipeline after the image decode that may raise
\* (266-275).
BlipFaults == {"none", "preprocess", "generate", "decode"}

\* infer_caption_from_data after its load (261-282), with the decode of line 263
\* moved out of the try block.
InferCaptionUnguardedDecode(data, fault) ==
    IF ~Decodable(data) THEN [raised |-> TRUE, caption |-> <<>>]
    ELSE IF fault # "none" THEN [raised |-> FALSE, caption |-> FallbackCaption]
    ELSE [raised |-> FALSE, caption |-> ImageCaption(data)]

\* infer_caption_from_data after its load (261-282).
InferCaption(data, fault) ==
    IF ~Decodable(data) \/ fault # "none"
    THEN [raised |-> FALSE, caption |-> FallbackCaption]
    ELSE [raised |-> FALSE, caption |-> ImageCaption(data)]

\* alt_only's checks with the empty-body check first.
ValidateEmptyFirst(content_type, data) ==
    IF data = <<>> THEN EmptyFile
    ELSE IF ~content_type.present \/ content_type.value = <<>>
            \/ ~StartsWith(content_type.value, ImagePrefix)
         THEN NotAnImage
    ELSE <<>>

\* Lines 351-354: the detail of the HTTPException raised, <<>> when none is.
Validate(content_type, data) ==
    IF ~content_type.present \/ content_type.value = <<>>
       \/ ~StartsWith(content_type.value, ImagePrefix)
    THEN NotAnImage
    ELSE IF data = <<>> THEN EmptyFile
    ELSE <<>>

\* UploadFile.read(): what is left of the stream.
Unread(r) == Drop(req[r].body, req[r].pos)

\* Lines 226-245 on a decoded generation.
RefineReturn(caption, generated) ==
    OrCaption(StripQuotes(WordPolicy(ExtractAlt(generated, Prompt(caption)), caption)),
              caption)

\* The continuations sampled while requests are served.
ServedContinuations ==
    {Phrase(3, PlainWord, PlainWord), Phrase(13, QuotedWord, PlainWord)}

\* generate_alt_from_caption (293-307) around refine_alt_text, given how the
\* load of line 203 ended: what the coroutine gets back from the worker.
RefinedAlts(caption, loadRaised) ==
    IF loadRaised THEN {caption}
    ELSE {FallbackText(caption)}
         \cup {RefineReturn(caption, Prompt(caption) \o <<" ">> \o c) :
               c \in ServedContinuations}

NoResponse == [status |-> 0, detail |-> <<>>, fields |-> {}, alt |-> <<>>,
               raw |-> <<>>, caption |-> <<>>, words |-> 0]

NoRequest ==
    [kind |-> "none", pc |-> "none", content_type |-> NoContentType, body |-> <<>>,
     pos |-> 0, raw |-> FALSE, debug |-> FALSE, include_caption |-> FALSE,
     data |-> <<>>, first_data |-> <<>>, caption |-> <<>>, alt_source |-> <<>>,
     alt |-> <<>>, phase |-> 1, stages |-> <<>>, cap |-> "none", load_raised |-> FALSE,
     injected |-> <<>>,
     resp |-> NoResponse]

\* Lines 113-121: both loads are tried; a failure is logged, not raised.
Startup ==
    /\ ~started
    /\ started' = TRUE
    /\ \E ob \in BlipLoadOutcomes(BLIP_MODEL, BLIP_PROCESSOR, mpsAvailable) :
        /\ BLIP_MODEL' = ob.model
        /\ BLIP_PROCESSOR' = ob.processor
        /\ IF ob.raised
           THEN UNCHANGED <<ALT_MODEL, ALT_TOKENIZER>>
           ELSE \E oa \in AltLoadOutcomes(ALT_MODEL, ALT_TOKENIZER, mpsAvailable) :
                    ALT_MODEL' = oa.model /\ ALT_TOKENIZER' = oa.tokenizer
    /\ UNCHANGED <<BLIP_LOCK, ALT_MODEL_LOCK, mpsAvailable, caller, loadCount,
                   completed, faulted, req, loop>>
    /\ UNCHANGED refineVars

\* A request arrives; the slots fill in order of arrival.
Arrive(r, kind, content_type, body, raw, debug, include_caption) ==
    /\ started
    /\ req[r].kind = "none"
    /\ r > 1 => req[r - 1].kind # "none"
    /\ req' = [req EXCEPT ![r] = [NoRequest EXCEPT
                  !.kind = kind, !.pc = "start", !.content_type = content_type,
                  !.body = body, !.raw = raw, !.debug = debug,
                  !.include_caption = include_caption]]
    /\ UNCHANGED <<started, loop>>
    /\ UNCHANGED <<loaderVars, refineVars>>

\* The query flags raw, debug, include_caption of the requests served.
FlagChoices ==
    {<<FALSE, FALSE, FALSE>>, <<TRUE, FALSE, FALSE>>, <<FALSE, TRUE, TRUE>>,
     <<FALSE, FALSE, TRUE>>}

ArriveAlt(r) ==
    \E ct \in ContentTypes, b \in Bodies, f \in FlagChoices :
        Arrive(r, "alt", ct, b, f[1], f[2], f[3])

ArriveCaption(r) ==
    \E b \in Bodies, inc \in BOOLEAN :
        Arrive(r, "caption", [present |-> TRUE, value |-> ImagePrefix], b, FALSE, FALSE, inc)

\* Lines 333-336: GET /test is answered whenever the loop is free; the handler
\* has no suspension and changes no state.
TestEndpoint ==
    /\ started
    /\ loop = 0
    /\ UNCHANGED vars

\* Lines 345-357: the upload is read once and checked; a request that passes
\* goes on into infer_caption_from_data without leaving the loop.
AltOnlyStart(r) ==
    /\ req[r].kind = "alt" /\ req[r].pc = "start"
    /\ loop = 0
    /\ LET data == Unread(r)
           detail == Validate(req[r].content_type, data)
       IN  IF detail # <<>>
           THEN /\ req' = [req EXCEPT ![r].pc = "done", ![r].data = data,
                               ![r].pos = Len(req[r].body),
                               ![r].resp = [NoResponse EXCEPT !.status = 400,
                                                              !.detail = detail]]
                /\ UNCHANGED loop
           ELSE /\ req' = [req EXCEPT ![r].pc = "caption_load", ![r].data = data,
                               ![r].first_data = data, ![r].pos = Len(req[r].body),
                               ![r].stages = Append(@, "caption")]
                /\ loop' = r
    /\ UNCHANGED started
    /\ UNCHANGED <<loaderVars, refineVars>>

\* Lines 322, 313, 289-290: caption -> generate_alt -> infer_caption reads the
\* upload and goes on into infer_caption_from_data.
CaptionStart(r) ==
    /\ req[r].kind = "caption" /\ req[r].pc = "start"
    /\ loop = 0
    /\ req' = [req EXCEPT ![r].pc = "caption_load", ![r].data = Unread(r),
                          ![r].first_data = Unread(r), ![r].pos = Len(req[r].body),
                          ![r].stages = Append(@, "caption")]
    /\ loop' = r
    /\ UNCHANGED started
    /\ UNCHANGED <<loaderVars, refineVars>>

\* Line 259: load_blip_model() is called before the try block; its RuntimeError
\* leaves the handler and the framework answers 500.
CaptionLoad(r) ==
    /\ req[r].pc = "caption_load"
    /\ loop = r
    /\ \E o \in BlipLoadOutcomes(BLIP_MODEL, BLIP_PROCESSOR, mpsAvailable) :
        /\ BLIP_MODEL' = o.model
        /\ BLIP_PROCESSOR' = o.processor
        /\ IF o.raised
           THEN /\ req' = [req EXCEPT ![r].pc = "done", ![r].cap = "raised",
                               ![r].load_raised = TRUE,
                               ![r].resp = [NoResponse EXCEPT !.status = 500]]
                /\ loop' = 0
           ELSE /\ req' = [req EXCEPT ![r].pc = "caption_infer", ![r].cap = "running"]
                /\ UNCHANGED loop
    /\ UNCHANGED <<BLIP_LOCK, ALT_MODEL, ALT_TOKENIZER, ALT_MODEL_LOCK, mpsAvailable,
                   caller, loadCount, completed, faulted, started>>
    /\ UNCHANGED refineVars

\* Lines 261-282, run inline by the coroutine. The first caption of a request
\* goes to generate_alt_from_caption, which hands refine_alt_text to a worker
\* thread (299) and suspends; the second one (327-330) ends the response.
CaptionInfer(r) ==
    /\ req[r].pc = "caption_infer"
    /\ loop = r
    /\ \E f \in BlipFaults :
       LET o == InferCaption(req[r].data, f)
       IN  IF o.raised
           THEN req' = [req EXCEPT ![r].pc = "done", ![r].cap = "raised",
                            ![r].injected = Append(@, f # "none"),
                            ![r].resp = [NoResponse EXCEPT !.status = 500]]
           ELSE IF req[r].phase = 1
           THEN req' = [req EXCEPT ![r].pc = "refining", ![r].cap = "returned",
                            ![r].injected = Append(@, f # "none"),
                            ![r].caption = o.caption, ![r].alt_source = o.caption,
                            ![r].stages = Append(@, "refine")]
           ELSE req' = [req EXCEPT ![r].pc = "done", ![r].cap = "returned",
                            ![r].injected = Append(@, f # "none"),
                            ![r].caption = o.caption,
                            ![r].resp = [@ EXCEPT !.status = 200,
                                                  !.fields = @ \cup {"caption"},
                                                  !.caption = o.caption]]
    /\ loop' = 0
    /\ UNCHANGED started
    /\ UNCHANGED <<loaderVars, refineVars>>

\* The worker thread of line 299 runs refine_alt_text; the except clause of
\* 304-307 turns a raise of it into the raw caption.
WorkerRefine(r) ==
    /\ req[r].pc = "refining"
    /\ \E o \in AltLoadOutcomes(ALT_MODEL, ALT_TOKENIZER, mpsAvailable) :
        /\ ALT_MODEL' = o.model
        /\ ALT_TOKENIZER' = o.tokenizer
        /\ \E a \in RefinedAlts(req[r].alt_source, o.raised) :
            req' = [req EXCEPT ![r].pc = "refined", ![r].alt = a]
    /\ UNCHANGED <<BLIP_MODEL, BLIP_PROCESSOR, BLIP_LOCK, ALT_MODEL_LOCK, mpsAvailable,
                   caller, loadCount, completed, faulted, started, loop>>
    /\ UNCHANGED refineVars

\* Lines 367-371: the response of alt_only.
AltOnlyRespond(r) ==
    /\ req[r].kind = "alt" /\ req[r].pc = "refined"
    /\ loop = 0
    /\ req' = [req EXCEPT ![r].pc = "done",
                  ![r].resp = IF req[r].raw \/ req[r].debug
                              THEN [NoResponse EXCEPT !.status = 200,
                                        !.fields = {"alt", "raw"},
                                        !.alt = req[r].alt, !.raw = req[r].alt]
                              ELSE IF req[r].include_caption
                              THEN [NoResponse EXCEPT !.status = 200,
                                        !.fields = {"alt", "caption"},
                                        !.alt = req[r].alt, !.caption = req[r].caption]
                              ELSE [NoResponse EXCEPT !.status = 200,
                                        !.fields = {"alt"}, !.alt = req[r].alt]]
    /\ UNCHANGED <<started, loop>>
    /\ UNCHANGED <<loaderVars, refineVars>>

\* Lines 322-330: the response of caption; with include_caption the handler calls
\* infer_caption on the same UploadFile again, which reads what is left of it.
CaptionRespond(r) ==
    /\ req[r].kind = "caption" /\ req[r].pc = "refined"
    /\ loop = 0
    /\ LET response == [NoResponse EXCEPT !.fields = {"alt", "words"},
                            !.alt = req[r].alt, !.words = Len(Split(req[r].alt))]
       IN  IF req[r].include_caption
           THEN /\ req' = [req EXCEPT ![r].pc = "caption_load", ![r].phase = 2,
                               ![r].cap = "none",
                               ![r].data = Unread(r), ![r].pos = Len(req[r].body),
                               ![r].stages = Append(@, "caption"),
                               ![r].resp = response]
                /\ loop' = r
           ELSE /\ req' = [req EXCEPT ![r].pc = "done",
                               ![r].resp = [response EXCEPT !.status = 200]]
                /\ UNCHANGED loop
    /\ UNCHANGED started
    /\ UNCHANGED <<loaderVars, refineVars>>

Init ==
    /\ BLIP_MODEL = NoModel
    /\ BLIP_PROCESSOR = NoTokenizer
    /\ BLIP_LOCK = 0
    /\ ALT_MODEL = NoModel
    /\ ALT_TOKENIZER = NoTokenizer
    /\ ALT_MODEL_LOCK = 0
    /\ mpsAvailable \in BOOLEAN
    /\ caller = [t \in Threads |-> IdleCaller]
    /\ loadCount = [l \in Loaders |-> 0]
    /\ completed = [l \in Loaders |-> FALSE]
    /\ faulted = [l \in Loaders |-> FALSE]
    /\ RefineIdle
    /\ started = FALSE
    /\ req = [r \in Requests |-> NoRequest]
    /\ loop = 0

Next ==
    \/ Startup
    \/ TestEndpoint
    \/ \E r \in Requests :
        \/ ArriveAlt(r)
        \/ ArriveCaption(r)
        \/ AltOnlyStart(r)
        \/ CaptionStart(r)
        \/ CaptionLoad(r)
        \/ CaptionInfer(r)
        \/ WorkerRefine(r)
        \/ AltOnlyRespond(r)
        \/ CaptionRespond(r)

Spec == Init /\ [][Next]_vars


\* The content type is a string that starts with "image/".
IsImageType(content_type) ==
    /\ content_type.present
    /\ Len(content_type.value) >= 6
    /\ SubSeq(content_type.value, 1, 6) = <<"i", "m", "a", "g", "e", "/">>

Rejected(r, detail) ==
    /\ req[r].pc = "done"
    /\ req[r].resp.status = 400
    /\ req[r].resp.detail = detail
    /\ req[r].stages = <<>>

\* C6: POST /alt answers 400 before either model stage is invoked, with detail
\* "file must be an image" whenever the content type is missing or does not start
\* with "image/" (whether or not the body is empty) and "empty file" whenever the
\* content type starts with "image/" and the body is empty; every other request
\* goes on to captioning, then refinement.
C6_RejectsBeforeModels ==
    \A r \in Requests :
        (req[r].kind = "alt" /\ req[r].pc # "start") =>
            IF ~IsImageType(req[r].content_type)
            THEN Rejected(r, <<"f", "i", "l", "e", " ", "m", "u", "s", "t", " ", "b", "e", " ", "a", "n", " ", "i", "m", "a", "g", "e">>)
            ELSE IF req[r].body = <<>>
            THEN Rejected(r, <<"e", "m", "p", "t", "y", " ", "f", "i", "l", "e">>)
            ELSE /\ req[r].resp.status # 400
                 /\ req[r].stages \in {<<"caption">>, <<"caption", "refine">>}
                 /\ req[r].resp.status = 200 => req[r].stages = <<"caption", "refine">>

\* A request with neither an image content type nor a body was rejected as not an
\* image.
C6_Witness ==
    \E r \in Requests :
        /\ req[r].kind = "alt"
        /\ req[r].body = <<>>
        /\ ~IsImageType(req[r].content_type)
        /\ req[r].resp.status = 400
        /\ req[r].resp.detail = NotAnImage

\* The captioning pipeline of the request's last inference raised: the bytes are
\* no image, or preprocessing, generation or text decoding failed.
PipelineRaised(r) ==
    ~Decodable(req[r].data) \/ req[r].injected[Len(req[r].injected)]

\* C7 as stated: for any image bytes infer_caption_from_data does not raise, and it
\* returns "A beautiful image" whenever a step of the pipeline raises.
C7_NeverRaises ==
    \A r \in Requests :
        /\ req[r].cap # "raised"
        /\ (req[r].cap = "returned" /\ PipelineRaised(r)) =>
                req[r].caption = <<"A", " ", "b", "e", "a", "u", "t", "i", "f", "u", "l", " ", "i", "m", "a", "g", "e">>

\* C7 amended: infer_caption_from_data raises exactly when its call of
\* load_blip_model raises (line 259 is outside the try block); once the load has
\* returned it returns a string for any bytes, "A beautiful image" whenever image
\* decode, preprocessing, generation or text decoding raises and BLIP's caption
\* otherwise.
C7_RaisesOnlyOnLoadFailure ==
    \A r \in Requests :
        /\ req[r].cap = "raised" <=> req[r].load_raised
        /\ req[r].cap = "returned" =>
                req[r].caption = IF PipelineRaised(r)
                                 THEN <<"A", " ", "b", "e", "a", "u", "t", "i", "f", "u", "l", " ", "i", "m", "a", "g", "e">>
                                 ELSE ImageCaption(req[r].data)

\* Bytes that are no image were captioned with the fallback caption.
C7_Witness ==
    \E r \in Requests :
        /\ req[r].cap = "returned"
        /\ req[r].data = <<0>>
        /\ req[r].injected = <<FALSE>>
        /\ req[r].caption = FallbackCaption

\* C8: a request that is inside a model inference step (the captioning generation
\* or the refinement generation) does not occupy the event loop, so the loop can
\* run other requests meanwhile.
C8_InferenceOffLoop ==
    \A r \in Requests :
        req[r].pc \in {"caption_infer", "refining"} => loop # r

\* C10: for POST /caption with include_caption, the caption field of the response
\* is the caption the alt field was derived from, and the second caption
\* computation sees the same bytes as the first; captioning is deterministic (no
\* step of it fails for a reason other than the bytes).
C10_CaptionFieldMatchesAlt ==
    \A r \in Requests :
        (/\ req[r].kind = "caption"
         /\ req[r].include_caption
         /\ req[r].pc = "done"
         /\ req[r].resp.status = 200
         /\ \A i \in 1..Len(req[r].injected) : ~req[r].injected[i]) =>
            /\ "caption" \in req[r].resp.fields
            /\ req[r].resp.caption = req[r].alt_source
            /\ req[r].data = req[r].first_data

====
